---- MODULE Spec2Model ----
\* Model of the endocare backend (Gin handlers over a Postgres record store):
\* the insert handlers, and the three analysis handlers find_triggers,
\* predict_flareups and recommendations of src/database/query.sql (the file
\* holds the Go source of the service).
\*
\* The handlers compute with Go float64.  TLC integers are 32 bits wide, so a
\* float64 is modelled exactly as sign * mantissa * 2^exponent with the 53-bit
\* mantissa held as a little-endian sequence of 15-bit limbs, and every
\* arithmetic operation rounds to nearest, ties to even, as IEEE-754 does.
EXTENDS Integers, Sequences, FiniteSets, TLC

\* ------------------------------------------------------------------------
\* Unbounded naturals as little-endian limb sequences (base 2^15), no leading
\* zero limb; the empty sequence is zero.
\* ------------------------------------------------------------------------
LimbBase == 32768
LimbBits == 15

Limb(a, i) == IF i <= Len(a) THEN a[i] ELSE 0

RECURSIVE BNorm(_)
BNorm(a) ==
  IF a = << >> THEN a
  ELSE IF a[Len(a)] = 0 THEN BNorm(SubSeq(a, 1, Len(a) - 1)) ELSE a

RECURSIVE BFromInt(_)
BFromInt(n) ==
  IF n = 0 THEN << >> ELSE << n % LimbBase >> \o BFromInt(n \div LimbBase)

RECURSIVE BAddC(_, _, _, _)
BAddC(a, b, i, c) ==
  IF i > Len(a) /\ i > Len(b)
  THEN (IF c = 0 THEN << >> ELSE << c >>)
  ELSE LET s == Limb(a, i) + Limb(b, i) + c
       IN << s % LimbBase >> \o BAddC(a, b, i + 1, s \div LimbBase)

BAdd(a, b) == BAddC(a, b, 1, 0)

\* a - b for a >= b
RECURSIVE BSubC(_, _, _, _)
BSubC(a, b, i, c) ==
  IF i > Len(a) THEN << >>
  ELSE LET d == a[i] - Limb(b, i) - c
       IN IF d < 0 THEN << d + LimbBase >> \o BSubC(a, b, i + 1, 1)
          ELSE << d >> \o BSubC(a, b, i + 1, 0)

BSub(a, b) == BNorm(BSubC(a, b, 1, 0))

\* -1, 0, 1 as a < b, a = b, a > b
RECURSIVE BCmpAt(_, _, _)
BCmpAt(a, b, i) ==
  IF i = 0 THEN 0
  ELSE IF a[i] < b[i] THEN -1
  ELSE IF a[i] > b[i] THEN 1
  ELSE BCmpAt(a, b, i - 1)

BCmp(a, b) ==
  IF Len(a) < Len(b) THEN -1
  ELSE IF Len(a) > Len(b) THEN 1
  ELSE BCmpAt(a, b, Len(a))

\* a * k for a limb k
RECURSIVE BMulSmallC(_, _, _, _)
BMulSmallC(a, k, i, c) ==
  IF i > Len(a) THEN (IF c = 0 THEN << >> ELSE << c >>)
  ELSE LET p == a[i] * k + c
       IN << p % LimbBase >> \o BMulSmallC(a, k, i + 1, p \div LimbBase)

BMulSmall(a, k) == IF k = 0 THEN << >> ELSE BMulSmallC(a, k, 1, 0)

BShiftLimbs(a, n) == IF a = << >> THEN a ELSE [i \in 1..n |-> 0] \o a

RECURSIVE BMulAt(_, _, _)
BMulAt(a, b, i) ==
  IF i > Len(b) THEN << >>
  ELSE BAdd(BShiftLimbs(BMulSmall(a, b[i]), i - 1), BMulAt(a, b, i + 1))

BMul(a, b) == BMulAt(a, b, 1)

\* quotient and remainder of a by a limb k > 0
RECURSIVE BDivAt(_, _, _, _)
BDivAt(a, k, i, r) ==
  IF i = 0 THEN [q |-> << >>, r |-> r]
  ELSE LET cur == r * LimbBase + a[i]
           rest == BDivAt(a, k, i - 1, cur % k)
       IN [q |-> Append(rest.q, cur \div k), r |-> rest.r]

BDivSmall(a, k) ==
  LET d == BDivAt(a, k, Len(a), 0) IN [q |-> BNorm(d.q), r |-> d.r]

BShl(a, n) == BShiftLimbs(BMulSmall(a, 2 ^ (n % LimbBits)), n \div LimbBits)

BShr(a, n) ==
  LET l == n \div LimbBits
      r == n % LimbBits
      hi == SubSeq(a, l + 1, Len(a))
  IN IF r = 0 THEN hi ELSE BDivSmall(hi, 2 ^ r).q

RECURSIVE BitLenSmall(_)
BitLenSmall(n) == IF n = 0 THEN 0 ELSE 1 + BitLenSmall(n \div 2)

BitLen(a) ==
  IF a = << >> THEN 0 ELSE LimbBits * (Len(a) - 1) + BitLenSmall(a[Len(a)])

\* bit i of a, bit 0 the lowest
BitAt(a, i) == (Limb(a, i \div LimbBits + 1) \div (2 ^ (i % LimbBits))) % 2

\* TRUE iff the n lowest bits of a are all zero
LowBitsZero(a, n) ==
  /\ \A j \in 1..(n \div LimbBits) : Limb(a, j) = 0
  /\ Limb(a, n \div LimbBits + 1) % (2 ^ (n % LimbBits)) = 0

ToInt(a) == Limb(a, 1) + LimbBase * Limb(a, 2)

\* floor of the square root of an integer below 2^30
RECURSIVE ISqrtBit(_, _, _)
ISqrtBit(x, r, i) ==
  IF i < 0 THEN r
  ELSE LET c == r + 2 ^ i
       IN ISqrtBit(x, IF c * c <= x THEN c ELSE r, i - 1)

ISqrt(x) == ISqrtBit(x, 0, LimbBits - 1)

\* the floor of the square root of p, given s with s*s <= p and rem = p - s*s
RECURSIVE BSqrtUp(_, _)
BSqrtUp(s, rem) ==
  LET d == BAdd(BMulSmall(s, 2), << 1 >>)
  IN IF BCmp(rem, d) >= 0 THEN BSqrtUp(BAdd(s, << 1 >>), BSub(rem, d)) ELSE s

\* the floor of the square root of p, given an estimate s of it
RECURSIVE BSqrtFix(_, _)
BSqrtFix(p, s) ==
  LET sq == BMul(s, s)
  IN IF BCmp(sq, p) > 0 THEN BSqrtFix(p, BSub(s, << 1 >>))
     ELSE BSqrtUp(s, BSub(p, sq))

\* from s = floor(sqrt(p div 2^30)) to floor(sqrt(p)): one more limb of the
\* root, estimated by dividing the remainder by 2s on their leading bits
BSqrtStep(p, s) ==
  LET num == BSub(p, BShiftLimbs(BMul(s, s), 2))
      d == BMulSmall(s, 2)
      t == BitLen(d) - LimbBits
      dtop == ToInt(BShr(d, t)) + 1
      ntop == ToInt(BShr(num, t + LimbBits))
      q0 == ntop \div dtop
      q == IF q0 >= LimbBase THEN LimbBase - 1 ELSE q0
  IN BSqrtFix(p, BAdd(BShiftLimbs(s, 1), BFromInt(q)))

\* floor of the square root of a, for a of 119 or 120 bits (8 limbs)
BSqrt(a) ==
  LET s1 == BFromInt(ISqrt(ToInt(SubSeq(a, 7, 8))))
      s2 == BSqrtStep(SubSeq(a, 5, 8), s1)
      s3 == BSqrtStep(SubSeq(a, 3, 8), s2)
  IN BSqrtStep(a, s3)

\* ------------------------------------------------------------------------
\* float64: [k |-> "num", s |-> sign (0 or 1), m |-> mantissa, e |-> exponent]
\* standing for (-1)^s * m * 2^e, m zero or 2^52 <= m < 2^53; or NaN.  The
\* handlers never produce an infinity, a subnormal or an overflow: their
\* values lie between 2^-120 and 2^31 in magnitude.
\* ------------------------------------------------------------------------
MantBits == 53

NaN == [k |-> "nan", s |-> 0, m |-> << >>, e |-> 0]
FZero == [k |-> "num", s |-> 0, m |-> << >>, e |-> 0]

IsNaN(x) == x.k = "nan"
IsZero(x) == x.k = "num" /\ x.m = << >>

\* round (-1)^s * (n * 2^e [+ a nonzero amount below 2^e when sticky]) to the
\* nearest float64, ties to even
FRound(s, n, e, sticky) ==
  IF n = << >> THEN FZero
  ELSE LET bl == BitLen(n) IN
    IF bl <= MantBits
    THEN [k |-> "num", s |-> s, m |-> BShl(n, MantBits - bl),
          e |-> e - (MantBits - bl)]
    ELSE LET sh == bl - MantBits
             q == BShr(n, sh)
             half == BitAt(n, sh - 1) = 1
             low == sticky \/ ~LowBitsZero(n, sh - 1)
             up == half /\ (low \/ BitAt(n, sh) = 1)
             q2 == IF up THEN BAdd(q, << 1 >>) ELSE q
         IN IF BitLen(q2) > MantBits
            THEN [k |-> "num", s |-> s, m |-> BShr(q2, 1), e |-> e + sh + 1]
            ELSE [k |-> "num", s |-> s, m |-> q2, e |-> e + sh]

\* float64(n) for an integer n of magnitude below 2^31
FromInt(n) ==
  IF n < 0 THEN FRound(1, BFromInt(0 - n), 0, FALSE)
  ELSE FRound(0, BFromInt(n), 0, FALSE)

FNeg(x) == IF IsNaN(x) \/ IsZero(x) THEN x ELSE [x EXCEPT !.s = 1 - x.s]

\* the exact sum of two (possibly unnormalised) numbers, rounded once
XAdd(x, y) ==
  IF IsNaN(x) \/ IsNaN(y) THEN NaN
  ELSE IF x.m = << >> THEN FRound(y.s, y.m, y.e, FALSE)
  ELSE IF y.m = << >> THEN FRound(x.s, x.m, x.e, FALSE)
  ELSE LET emin == IF x.e < y.e THEN x.e ELSE y.e
           a == BShl(x.m, x.e - emin)
           b == BShl(y.m, y.e - emin)
           c == BCmp(a, b)
       IN IF x.s = y.s THEN FRound(x.s, BAdd(a, b), emin, FALSE)
          ELSE IF c = 0 THEN FZero
          ELSE IF c > 0 THEN FRound(x.s, BSub(a, b), emin, FALSE)
          ELSE FRound(y.s, BSub(b, a), emin, FALSE)

\* the exact, unrounded product
XMul(x, y) ==
  IF IsNaN(x) \/ IsNaN(y) THEN NaN
  ELSE IF x.m = << >> \/ y.m = << >> THEN FZero
  ELSE [k |-> "num", s |-> (x.s + y.s) % 2, m |-> BMul(x.m, y.m),
        e |-> x.e + y.e]

FAdd(x, y) == XAdd(x, y)
FSub(x, y) == XAdd(x, FNeg(y))
FMul(x, y) == LET p == XMul(x, y) IN
  IF IsNaN(p) THEN NaN ELSE FRound(p.s, p.m, p.e, FALSE)

\* x / float64(n) for an integer 0 <= n < 2^15; 0/0 is NaN
DivGuard == 17
FDivInt(x, n) ==
  IF IsNaN(x) THEN NaN
  ELSE IF n = 0 THEN NaN
  ELSE IF IsZero(x) THEN FZero
  ELSE LET d == BDivSmall(BShl(x.m, DivGuard), n)
       IN FRound(x.s, d.q, x.e - DivGuard, d.r # 0)

\* math.Sqrt: the mantissa is scaled to 119 or 120 bits, its integer square
\* root has 60 bits, of which FRound keeps 53
SqrtGuard == 66
FSqrt(x) ==
  IF IsNaN(x) THEN NaN
  ELSE IF IsZero(x) THEN FZero
  ELSE IF x.s = 1 THEN NaN
  ELSE LET t == IF (x.e - SqrtGuard) % 2 = 0 THEN SqrtGuard ELSE SqrtGuard + 1
           n == BShl(x.m, t)
           r == BSqrt(n)
       IN FRound(0, r, (x.e - t) \div 2, BMul(r, r) # n)

\* x < y; FALSE when either is NaN
FLess(x, y) ==
  IF IsNaN(x) \/ IsNaN(y) THEN FALSE
  ELSE LET d == XAdd(x, FNeg(y)) IN d.m # << >> /\ d.s = 1

FGreater(x, y) == FLess(y, x)


\* math.Min
FMin(x, y) == IF IsNaN(x) \/ IsNaN(y) THEN NaN ELSE IF FLess(y, x) THEN y ELSE x

\* x*y + z as the build computes it: two roundings, or one when the compiler
\* fuses the multiply-add (Go permits the fusion; arm64 and GOAMD64=v3 do it)
MulAdd(x, y, z, fma) ==
  IF fma THEN XAdd(XMul(x, y), z) ELSE FAdd(FMul(x, y), z)

\* ------------------------------------------------------------------------
\* Go library operations the handlers call
\* ------------------------------------------------------------------------
\* left fold, the shape of every "for _, x := range xs" accumulation
RECURSIVE FoldAt(_, _, _, _)
FoldAt(Op(_, _), acc, xs, i) ==
  IF i > Len(xs) THEN acc
  ELSE LET nxt == Op(acc, xs[i])
       IN IF nxt = nxt THEN FoldAt(Op, nxt, xs, i + 1) ELSE acc

FoldLeft(Op(_, _), acc, xs) == FoldAt(Op, acc, xs, 1)

\* sort.Slice on a slice of at most 12 elements is an insertion sort (stable)
InsertionSortLimit == 12
RECURSIVE SiftDown(_, _, _)
SiftDown(Less(_, _), xs, j) ==
  IF j > 1 /\ Less(xs[j], xs[j - 1])
  THEN SiftDown(Less, [xs EXCEPT ![j] = xs[j - 1], ![j - 1] = xs[j]], j - 1)
  ELSE xs

RECURSIVE SortFrom(_, _, _)
SortFrom(Less(_, _), xs, i) ==
  IF i > Len(xs) THEN xs ELSE SortFrom(Less, SiftDown(Less, xs, i), i + 1)

SortSlice(Less(_, _), xs) == SortFrom(Less, xs, 2)

\* A date is the day number within the year 2025 (a pgtype.Date at midnight
\* UTC).  Format("2006-01-02") gives the key <<year, month, day>>,
\* time.Parse reads it back, AddDate(0, 0, -1) steps one calendar day back.
Year == 2025
MonthDays == << 31, 28, 31, 30, 31, 30, 31, 31, 30, 31, 30, 31 >>

RECURSIVE MonthOf(_, _)
MonthOf(day, m) ==
  IF day <= MonthDays[m] THEN << Year, m, day >>
  ELSE MonthOf(day - MonthDays[m], m + 1)

Format(day) == MonthOf(day, 1)

RECURSIVE DaysBefore(_)
DaysBefore(m) == IF m = 1 THEN 0 ELSE MonthDays[m - 1] + DaysBefore(m - 1)

Parse(str) == DaysBefore(str[2]) + str[3]

AddDate(day, n) == day + n

\* int32 addition, wrapping
MaxInt32 == 2147483647
Int32Add(a, b) ==
  IF b > 0 /\ a > MaxInt32 - b THEN (a - MaxInt32 - 1) + (b - MaxInt32 - 1)
  ELSE IF b < 0 /\ a < (0 - MaxInt32 - 1) - b
       THEN (a + MaxInt32 + 1) + (b + MaxInt32 + 1)
  ELSE a + b

\* m[k]++ on a map[string]int, and append(m[k], v) on a map of slices
Incr(m, k) ==
  IF k \in DOMAIN m THEN [m EXCEPT ![k] = @ + 1] ELSE m @@ (k :> 1)

AppendAt(m, k, v) ==
  IF k \in DOMAIN m THEN [m EXCEPT ![k] = Append(@, v)] ELSE m @@ (k :> << v >>)

Put(m, k, v) == [x \in DOMAIN m \cup {k} |-> IF x = k THEN v ELSE m[x]]

EmptyMap == << >>

\* every order in which "for k := range m" may visit the keys of a map
RECURSIVE Orders(_)
Orders(S) ==
  IF S = {} THEN { << >> }
  ELSE UNION { { << k >> \o o : o \in Orders(S \ {k}) } : k \in S }

\* ------------------------------------------------------------------------
\* The records the model inserts.  Each table holds a subsequence of its log
\* or of the reversed log, so rows arrive in date order or against it, and
\* two rows may share a date.
\* ------------------------------------------------------------------------
MaxSymptoms == 4
MaxSleep == 2
MaxDiet == 2
MaxMenstrual == 1

Sym(date, nausea, fatigue, pain) ==
  [Date |-> date, Nausea |-> nausea, Fatigue |-> fatigue, Pain |-> pain]

SymptomLog ==
  << Sym(30, 2, 2, 2), Sym(31, 2, 2, 2), Sym(31, 2, 3, 3), Sym(32, 9, 9, 9),
     Sym(32, 3, 3, 4), Sym(33, 4, 4, 4), Sym(33, 1, 2, 2) >>

SleepLog ==
  << [Date |-> 31, Duration |-> FromInt(5)],
     [Date |-> 31, Duration |-> FromInt(6)],
     [Date |-> 32, Duration |-> FromInt(5)] >>

DietLog ==
  << [Date |-> 31, Items |-> << "chocolate" >>],
     [Date |-> 31, Items |-> << "milk", "milk" >>],
     [Date |-> 32, Items |-> << "chocolate" >>] >>

MenstrualLog ==
  << [Date |-> 31, PeriodEvent |-> "start", FlowLevel |-> "heavy"],
     [Date |-> 32, PeriodEvent |-> "end", FlowLevel |-> "light"] >>

Reverse(xs) == [i \in 1..Len(xs) |-> xs[Len(xs) + 1 - i]]

Pick(log, I) ==
  [k \in 1..Cardinality(I) |->
     log[CHOOSE i \in I : Cardinality({j \in I : j < i}) = k - 1]]

SubSeqsOf(log, max) ==
  { Pick(log, I) : I \in { J \in SUBSET (1..Len(log)) : Cardinality(J) <= max } }

Stores(log, max) == SubSeqsOf(log, max) \cup SubSeqsOf(Reverse(log), max)

\* severities 9, 3.33, 4 on three consecutive days
DropThenRise == << Sym(30, 9, 9, 9), Sym(31, 3, 3, 4), Sym(32, 4, 4, 4) >>

\* the symptom tables of the model: the selections of rows of the log, in
\* both orders, and the history above
SymptomStores == Stores(SymptomLog, MaxSymptoms) \cup { DropThenRise }
SleepStores == Stores(SleepLog, MaxSleep)
DietStores == Stores(DietLog, MaxDiet)
MenstrualStores == Stores(MenstrualLog, MaxMenstrual)

\* ------------------------------------------------------------------------
\* GET /find_triggers: the computation after the four queries
\* ------------------------------------------------------------------------
SleepThreshold == 6

\* "x := e" followed by the rest of the block: Rest is the rest, with its
\* parameter standing for the value of e
With(e, Rest(_)) == Rest(e)


\* sleepMap, dietMap, menstrualMap: the records indexed by formatted date
FT_sleepMap(sleepData) ==
  FoldLeft(LAMBDA m, s : Put(m, Format(s.Date), s), EmptyMap, sleepData)

\* dietMap keeping one diet record per date, like sleepMap
FT_dietMapLastWins(dietData) ==
  FoldLeft(LAMBDA m, d : Put(m, Format(d.Date), << d >>), EmptyMap, dietData)

FT_dietMap(dietData) ==
  FoldLeft(LAMBDA m, d : AppendAt(m, Format(d.Date), d), EmptyMap, dietData)

FT_menstrualMap(menstrualData) ==
  FoldLeft(LAMBDA m, r : Put(m, Format(r.Date), r), EmptyMap, menstrualData)

\* The handler's local variables when it reaches "var scores []float64"
FT_locals(symptomsData, fma) ==
  [symptomsData |-> symptomsData, fma |-> fma, scores |-> << >>,
   mean |-> FZero, stdDev |-> FZero, scoredDays |-> << >>, diffs |-> << >>,
   meanDiff |-> FZero, stdDiff |-> FZero, threshold |-> FZero,
   spikeDays |-> EmptyMap]

\* The statements from "var scores []float64" to the loop that fills
\* spikeDays, one operator each, over the handler's local variables l
FT_avg(sym) ==
  FDivInt(FromInt(Int32Add(Int32Add(sym.Nausea, sym.Fatigue), sym.Pain)), 3)

FT_scores(l) ==
  [l EXCEPT !.scores = [i \in 1..Len(l.symptomsData) |->
                          FT_avg(l.symptomsData[i])]]

FT_mean(l) ==
  [l EXCEPT !.mean =
         FDivInt(FoldLeft(LAMBDA sum, s : FAdd(sum, s), FZero, l.scores),
                 Len(l.scores))]

FT_stdDev(l) ==
  [l EXCEPT !.stdDev =
         IF Len(l.scores) > 1
         THEN FSqrt(FDivInt(
                FoldLeft(LAMBDA squaredDiffSum, s :
                           With(FSub(s, l.mean), LAMBDA diff :
                                MulAdd(diff, diff, squaredDiffSum, l.fma)),
                         FZero, l.scores),
                Len(l.scores) - 1))
         ELSE FZero]

\* scoredDays left in storage order (no sort.Slice)
FT_scoredDaysUnsorted(l) ==
  [l EXCEPT !.scoredDays =
         [i \in 1..Len(l.symptomsData) |->
            [Date |-> l.symptomsData[i].Date,
             Score |-> FDivInt(FromInt(Int32Add(Int32Add(
                 l.symptomsData[i].Nausea, l.symptomsData[i].Fatigue),
                 l.symptomsData[i].Pain)), 3)]]]

FT_scoredDays(l) ==
  [l EXCEPT !.scoredDays =
         SortSlice(LAMBDA a, b : a.Date < b.Date,
                   [i \in 1..Len(l.symptomsData) |->
                      [Date |-> l.symptomsData[i].Date,
                       Score |-> FDivInt(FromInt(Int32Add(Int32Add(
                           l.symptomsData[i].Nausea, l.symptomsData[i].Fatigue),
                           l.symptomsData[i].Pain)), 3)]])]

FT_diffs(l) ==
  [l EXCEPT !.diffs =
         [i \in 1..(Len(l.scoredDays) - 1) |->
            FSub(l.scoredDays[i + 1].Score, l.scoredDays[i].Score)]]

FT_meanDiff(l) ==
  [l EXCEPT !.meanDiff =
         FDivInt(FoldLeft(LAMBDA sumDiff, d : FAdd(sumDiff, d), FZero, l.diffs),
                 Len(l.diffs))]

FT_stdDiff(l) ==
  [l EXCEPT !.stdDiff =
         FSqrt(FDivInt(
           FoldLeft(LAMBDA sqSumDiff, d :
                      MulAdd(FSub(d, l.meanDiff), FSub(d, l.meanDiff),
                             sqSumDiff, l.fma),
                    FZero, l.diffs),
           Len(l.diffs)))]

\* the threshold one deviation below the mean
FT_thresholdBelow(l) == [l EXCEPT !.threshold = FSub(l.meanDiff, l.stdDiff)]

FT_threshold(l) == [l EXCEPT !.threshold = FAdd(l.meanDiff, l.stdDiff)]

\* the loop that fills spikeDays with "diff >= threshold" for its test
FT_spikeDaysNotStrict(l) ==
  [l EXCEPT !.spikeDays =
         FoldLeft(LAMBDA m, i :
                    IF ~FLess(FSub(l.scoredDays[i].Score,
                                   l.scoredDays[i - 1].Score), l.threshold)
                    THEN Put(m, Format(l.scoredDays[i].Date),
                             l.scoredDays[i].Score)
                    ELSE m,
                  EmptyMap, [j \in 1..(Len(l.scoredDays) - 1) |-> j + 1])]

\* the loop that fills spikeDays flagging a change of either sign
FT_spikeDaysTwoSided(l) ==
  [l EXCEPT !.spikeDays =
         FoldLeft(LAMBDA m, i :
                    IF FGreater(FSub(l.scoredDays[i].Score,
                                     l.scoredDays[i - 1].Score), l.threshold)
                       \/ FGreater(FSub(l.scoredDays[i - 1].Score,
                                        l.scoredDays[i].Score), l.threshold)
                    THEN Put(m, Format(l.scoredDays[i].Date),
                             l.scoredDays[i].Score)
                    ELSE m,
                  EmptyMap, [j \in 1..(Len(l.scoredDays) - 1) |-> j + 1])]

FT_spikeDays(l) ==
  [l EXCEPT !.spikeDays =
         FoldLeft(LAMBDA m, i :
                    IF FGreater(FSub(l.scoredDays[i].Score,
                                     l.scoredDays[i - 1].Score), l.threshold)
                    THEN Put(m, Format(l.scoredDays[i].Date),
                             l.scoredDays[i].Score)
                    ELSE m,
                  EmptyMap, [j \in 1..(Len(l.scoredDays) - 1) |-> j + 1])]

\* the statements in the order of the handler, for a non-empty symptomsData
FT_Detect(symptomsData, fma) ==
  FT_spikeDays(FT_threshold(FT_stdDiff(FT_meanDiff(FT_diffs(FT_scoredDays(
    FT_stdDev(FT_mean(FT_scores(
      FT_locals(symptomsData, fma))))))))))

\* triggers and the details lists before the loop over spikeDays
NoTriggers ==
  [LowSleepHours |-> 0, MenstrualEvent |-> EmptyMap, FlowLevel |-> EmptyMap,
   FoodItems |-> EmptyMap, lowSleepDetails |-> << >>,
   foodItemDetails |-> EmptyMap, menstrualEventDetails |-> EmptyMap,
   flowLevelDetails |-> EmptyMap]

\* the sleep lookup with "sleep.Duration.Float64 <= 6"
FT_lowSleepAtMost(t, dayBefore, severity, sleepMap) ==
  IF dayBefore \in DOMAIN sleepMap
     /\ ~FGreater(sleepMap[dayBefore].Duration, FromInt(SleepThreshold))
  THEN [t EXCEPT !.LowSleepHours = @ + 1,
                 !.lowSleepDetails =
                   Append(@, [Date |-> dayBefore, TriggerSeverity |-> severity])]
  ELSE t

\* "if sleep, ok := sleepMap[dayBefore]; ok { ... }"
FT_lowSleep(t, dayBefore, severity, sleepMap) ==
  IF dayBefore \in DOMAIN sleepMap
     /\ FLess(sleepMap[dayBefore].Duration, FromInt(SleepThreshold))
  THEN [t EXCEPT !.LowSleepHours = @ + 1,
                 !.lowSleepDetails =
                   Append(@, [Date |-> dayBefore, TriggerSeverity |-> severity])]
  ELSE t

\* the diet lookup appending an example for the first occurrence of a food
\* item only
FT_foodItemsOneExample(t, dayBefore, severity, dietMap) ==
  IF dayBefore \in DOMAIN dietMap
  THEN FoldLeft(LAMBDA a, d :
         FoldLeft(LAMBDA b, item :
             [b EXCEPT !.FoodItems = Incr(@, item),
                       !.foodItemDetails =
                         IF item \in DOMAIN @ THEN @
                         ELSE AppendAt(@, item, [Date |-> dayBefore,
                                                 TriggerSeverity |-> severity])],
           a, d.Items),
         t, dietMap[dayBefore])
  ELSE t

\* "if diets, ok := dietMap[dayBefore]; ok { ... }"
FT_foodItems(t, dayBefore, severity, dietMap) ==
  IF dayBefore \in DOMAIN dietMap
  THEN FoldLeft(LAMBDA a, d :
         FoldLeft(LAMBDA b, item :
             [b EXCEPT !.FoodItems = Incr(@, item),
                       !.foodItemDetails =
                         AppendAt(@, item, [Date |-> dayBefore,
                                            TriggerSeverity |-> severity])],
           a, d.Items),
         t, dietMap[dayBefore])
  ELSE t

\* "if menstrual, ok := menstrualMap[dayBefore]; ok { ... }"
FT_menstrual(t, dayBefore, severity, menstrualMap) ==
  IF dayBefore \in DOMAIN menstrualMap
  THEN [t EXCEPT
          !.MenstrualEvent = Incr(@, menstrualMap[dayBefore].PeriodEvent),
          !.menstrualEventDetails =
            AppendAt(@, menstrualMap[dayBefore].PeriodEvent,
                     [Date |-> dayBefore, TriggerSeverity |-> severity]),
          !.FlowLevel = Incr(@, menstrualMap[dayBefore].FlowLevel),
          !.flowLevelDetails =
            AppendAt(@, menstrualMap[dayBefore].FlowLevel,
                     [Date |-> dayBefore, TriggerSeverity |-> severity])]
  ELSE t

\* one iteration of the loop with the lookups made on the spike date itself
FT_CheckSpikeDay(t, spikeDateStr, severity, sleepMap, dietMap, menstrualMap) ==
  FT_menstrual(FT_foodItems(FT_lowSleep(t, spikeDateStr, severity, sleepMap),
                            spikeDateStr, severity, dietMap),
               spikeDateStr, severity, menstrualMap)

\* one iteration of "for spikeDateStr, severity := range spikeDays"
FT_CheckDayBefore(t, spikeDateStr, severity, sleepMap, dietMap, menstrualMap) ==
  With(Format(AddDate(Parse(spikeDateStr), -1)), LAMBDA dayBefore :
       FT_menstrual(FT_foodItems(FT_lowSleep(t, dayBefore, severity, sleepMap),
                                 dayBefore, severity, dietMap),
                    dayBefore, severity, menstrualMap))

\* the loop, visiting the spike dates in the given order
FT_Triggers(spikeDays, order, sleepMap, dietMap, menstrualMap) ==
  FoldLeft(LAMBDA t, k :
             FT_CheckDayBefore(t, k, spikeDays[k], sleepMap, dietMap,
                               menstrualMap),
           NoTriggers, order)

\* ------------------------------------------------------------------------
\* GET /predict_flareups: the same computation, then the recent window
\* ------------------------------------------------------------------------
\* sleepMap, dietMap, menstrualMap: the records indexed by formatted date
PF_sleepMap(sleepData) ==
  FoldLeft(LAMBDA m, s : Put(m, Format(s.Date), s), EmptyMap, sleepData)

PF_dietMap(dietData) ==
  FoldLeft(LAMBDA m, d : AppendAt(m, Format(d.Date), d), EmptyMap, dietData)

PF_menstrualMap(menstrualData) ==
  FoldLeft(LAMBDA m, r : Put(m, Format(r.Date), r), EmptyMap, menstrualData)

\* The handler's local variables when it reaches "var scores []float64"
PF_locals(symptomsData, fma) ==
  [symptomsData |-> symptomsData, fma |-> fma, scores |-> << >>,
   mean |-> FZero, stdDev |-> FZero, scoredDays |-> << >>, diffs |-> << >>,
   meanDiff |-> FZero, stdDiff |-> FZero, threshold |-> FZero,
   spikeDays |-> EmptyMap]

\* The statements from "var scores []float64" to the loop that fills
\* spikeDays, one operator each, over the handler's local variables l
PF_avg(sym) ==
  FDivInt(FromInt(Int32Add(Int32Add(sym.Nausea, sym.Fatigue), sym.Pain)), 3)

PF_scores(l) ==
  [l EXCEPT !.scores = [i \in 1..Len(l.symptomsData) |->
                          PF_avg(l.symptomsData[i])]]

PF_mean(l) ==
  [l EXCEPT !.mean =
         FDivInt(FoldLeft(LAMBDA sum, s : FAdd(sum, s), FZero, l.scores),
                 Len(l.scores))]

PF_stdDev(l) ==
  [l EXCEPT !.stdDev =
         IF Len(l.scores) > 1
         THEN FSqrt(FDivInt(
                FoldLeft(LAMBDA squaredDiffSum, s :
                           With(FSub(s, l.mean), LAMBDA diff :
                                MulAdd(diff, diff, squaredDiffSum, l.fma)),
                         FZero, l.scores),
                Len(l.scores) - 1))
         ELSE FZero]

PF_scoredDays(l) ==
  [l EXCEPT !.scoredDays =
         SortSlice(LAMBDA a, b : a.Date < b.Date,
                   [i \in 1..Len(l.symptomsData) |->
                      [Date |-> l.symptomsData[i].Date,
                       Score |-> FDivInt(FromInt(Int32Add(Int32Add(
                           l.symptomsData[i].Nausea, l.symptomsData[i].Fatigue),
                           l.symptomsData[i].Pain)), 3)]])]

PF_diffs(l) ==
  [l EXCEPT !.diffs =
         [i \in 1..(Len(l.scoredDays) - 1) |->
            FSub(l.scoredDays[i + 1].Score, l.scoredDays[i].Score)]]

PF_meanDiff(l) ==
  [l EXCEPT !.meanDiff =
         FDivInt(FoldLeft(LAMBDA sumDiff, d : FAdd(sumDiff, d), FZero, l.diffs),
                 Len(l.diffs))]

PF_stdDiff(l) ==
  [l EXCEPT !.stdDiff =
         FSqrt(FDivInt(
           FoldLeft(LAMBDA sqSumDiff, d :
                      MulAdd(FSub(d, l.meanDiff), FSub(d, l.meanDiff),
                             sqSumDiff, l.fma),
                    FZero, l.diffs),
           Len(l.diffs)))]

PF_threshold(l) == [l EXCEPT !.threshold = FAdd(l.meanDiff, l.stdDiff)]

PF_spikeDays(l) ==
  [l EXCEPT !.spikeDays =
         FoldLeft(LAMBDA m, i :
                    IF FGreater(FSub(l.scoredDays[i].Score,
                                     l.scoredDays[i - 1].Score), l.threshold)
                    THEN Put(m, Format(l.scoredDays[i].Date),
                             l.scoredDays[i].Score)
                    ELSE m,
                  EmptyMap, [j \in 1..(Len(l.scoredDays) - 1) |-> j + 1])]

\* the statements in the order of the handler, for a non-empty symptomsData
PF_Detect(symptomsData, fma) ==
  PF_spikeDays(PF_threshold(PF_stdDiff(PF_meanDiff(PF_diffs(PF_scoredDays(
    PF_stdDev(PF_mean(PF_scores(
      PF_locals(symptomsData, fma))))))))))

\* "if sleep, ok := sleepMap[dayBefore]; ok { ... }"
PF_lowSleep(t, dayBefore, severity, sleepMap) ==
  IF dayBefore \in DOMAIN sleepMap
     /\ FLess(sleepMap[dayBefore].Duration, FromInt(SleepThreshold))
  THEN [t EXCEPT !.LowSleepHours = @ + 1,
                 !.lowSleepDetails =
                   Append(@, [Date |-> dayBefore, TriggerSeverity |-> severity])]
  ELSE t

\* "if diets, ok := dietMap[dayBefore]; ok { ... }"
PF_foodItems(t, dayBefore, severity, dietMap) ==
  IF dayBefore \in DOMAIN dietMap
  THEN FoldLeft(LAMBDA a, d :
         FoldLeft(LAMBDA b, item :
             [b EXCEPT !.FoodItems = Incr(@, item),
                       !.foodItemDetails =
                         AppendAt(@, item, [Date |-> dayBefore,
                                            TriggerSeverity |-> severity])],
           a, d.Items),
         t, dietMap[dayBefore])
  ELSE t

\* "if menstrual, ok := menstrualMap[dayBefore]; ok { ... }"
PF_menstrual(t, dayBefore, severity, menstrualMap) ==
  IF dayBefore \in DOMAIN menstrualMap
  THEN [t EXCEPT
          !.MenstrualEvent = Incr(@, menstrualMap[dayBefore].PeriodEvent),
          !.menstrualEventDetails =
            AppendAt(@, menstrualMap[dayBefore].PeriodEvent,
                     [Date |-> dayBefore, TriggerSeverity |-> severity]),
          !.FlowLevel = Incr(@, menstrualMap[dayBefore].FlowLevel),
          !.flowLevelDetails =
            AppendAt(@, menstrualMap[dayBefore].FlowLevel,
                     [Date |-> dayBefore, TriggerSeverity |-> severity])]
  ELSE t

\* one iteration of "for spikeDateStr, severity := range spikeDays"
PF_CheckDayBefore(t, spikeDateStr, severity, sleepMap, dietMap, menstrualMap) ==
  With(Format(AddDate(Parse(spikeDateStr), -1)), LAMBDA dayBefore :
       PF_menstrual(PF_foodItems(PF_lowSleep(t, dayBefore, severity, sleepMap),
                                 dayBefore, severity, dietMap),
                    dayBefore, severity, menstrualMap))

\* the loop, visiting the spike dates in the given order
PF_Triggers(spikeDays, order, sleepMap, dietMap, menstrualMap) ==
  FoldLeft(LAMBDA t, k :
             PF_CheckDayBefore(t, k, spikeDays[k], sleepMap, dietMap,
                               menstrualMap),
           NoTriggers, order)

\* ------------------------------------------------------------------------
\* GET recommendations: the same computation, then the text generation
\* ------------------------------------------------------------------------
\* sleepMap, dietMap, menstrualMap: the records indexed by formatted date
RC_sleepMap(sleepData) ==
  FoldLeft(LAMBDA m, s : Put(m, Format(s.Date), s), EmptyMap, sleepData)

RC_dietMap(dietData) ==
  FoldLeft(LAMBDA m, d : AppendAt(m, Format(d.Date), d), EmptyMap, dietData)

RC_menstrualMap(menstrualData) ==
  FoldLeft(LAMBDA m, r : Put(m, Format(r.Date), r), EmptyMap, menstrualData)

\* The handler's local variables when it reaches "var scores []float64"
RC_locals(symptomsData, fma) ==
  [symptomsData |-> symptomsData, fma |-> fma, scores |-> << >>,
   mean |-> FZero, stdDev |-> FZero, scoredDays |-> << >>, diffs |-> << >>,
   meanDiff |-> FZero, stdDiff |-> FZero, threshold |-> FZero,
   spikeDays |-> EmptyMap]

\* The statements from "var scores []float64" to the loop that fills
\* spikeDays, one operator each, over the handler's local variables l
RC_avg(sym) ==
  FDivInt(FromInt(Int32Add(Int32Add(sym.Nausea, sym.Fatigue), sym.Pain)), 3)

RC_scores(l) ==
  [l EXCEPT !.scores = [i \in 1..Len(l.symptomsData) |->
                          RC_avg(l.symptomsData[i])]]

RC_mean(l) ==
  [l EXCEPT !.mean =
         FDivInt(FoldLeft(LAMBDA sum, s : FAdd(sum, s), FZero, l.scores),
                 Len(l.scores))]

RC_stdDev(l) ==
  [l EXCEPT !.stdDev =
         IF Len(l.scores) > 1
         THEN FSqrt(FDivInt(
                FoldLeft(LAMBDA squaredDiffSum, s :
                           With(FSub(s, l.mean), LAMBDA diff :
                                MulAdd(diff, diff, squaredDiffSum, l.fma)),
                         FZero, l.scores),
                Len(l.scores) - 1))
         ELSE FZero]

RC_scoredDays(l) ==
  [l EXCEPT !.scoredDays =
         SortSlice(LAMBDA a, b : a.Date < b.Date,
                   [i \in 1..Len(l.symptomsData) |->
                      [Date |-> l.symptomsData[i].Date,
                       Score |-> FDivInt(FromInt(Int32Add(Int32Add(
                           l.symptomsData[i].Nausea, l.symptomsData[i].Fatigue),
                           l.symptomsData[i].Pain)), 3)]])]

RC_diffs(l) ==
  [l EXCEPT !.diffs =
         [i \in 1..(Len(l.scoredDays) - 1) |->
            FSub(l.scoredDays[i + 1].Score, l.scoredDays[i].Score)]]

RC_meanDiff(l) ==
  [l EXCEPT !.meanDiff =
         FDivInt(FoldLeft(LAMBDA sumDiff, d : FAdd(sumDiff, d), FZero, l.diffs),
                 Len(l.diffs))]

\* stdDiff as the sample deviation (dividing by len(diffs) - 1)
RC_stdDiffSample(l) ==
  [l EXCEPT !.stdDiff =
         FSqrt(FDivInt(
           FoldLeft(LAMBDA sqSumDiff, d :
                      MulAdd(FSub(d, l.meanDiff), FSub(d, l.meanDiff),
                             sqSumDiff, l.fma),
                    FZero, l.diffs),
           Len(l.diffs) - 1))]

RC_stdDiff(l) ==
  [l EXCEPT !.stdDiff =
         FSqrt(FDivInt(
           FoldLeft(LAMBDA sqSumDiff, d :
                      MulAdd(FSub(d, l.meanDiff), FSub(d, l.meanDiff),
                             sqSumDiff, l.fma),
                    FZero, l.diffs),
           Len(l.diffs)))]

RC_threshold(l) == [l EXCEPT !.threshold = FAdd(l.meanDiff, l.stdDiff)]

RC_spikeDays(l) ==
  [l EXCEPT !.spikeDays =
         FoldLeft(LAMBDA m, i :
                    IF FGreater(FSub(l.scoredDays[i].Score,
                                     l.scoredDays[i - 1].Score), l.threshold)
                    THEN Put(m, Format(l.scoredDays[i].Date),
                             l.scoredDays[i].Score)
                    ELSE m,
                  EmptyMap, [j \in 1..(Len(l.scoredDays) - 1) |-> j + 1])]

\* the statements in the order of the handler, for a non-empty symptomsData
RC_Detect(symptomsData, fma) ==
  RC_spikeDays(RC_threshold(RC_stdDiff(RC_meanDiff(RC_diffs(RC_scoredDays(
    RC_stdDev(RC_mean(RC_scores(
      RC_locals(symptomsData, fma))))))))))

\* "if sleep, ok := sleepMap[dayBefore]; ok { ... }"
RC_lowSleep(t, dayBefore, severity, sleepMap) ==
  IF dayBefore \in DOMAIN sleepMap
     /\ FLess(sleepMap[dayBefore].Duration, FromInt(SleepThreshold))
  THEN [t EXCEPT !.LowSleepHours = @ + 1,
                 !.lowSleepDetails =
                   Append(@, [Date |-> dayBefore, TriggerSeverity |-> severity])]
  ELSE t

\* "if diets, ok := dietMap[dayBefore]; ok { ... }"
RC_foodItems(t, dayBefore, severity, dietMap) ==
  IF dayBefore \in DOMAIN dietMap
  THEN FoldLeft(LAMBDA a, d :
         FoldLeft(LAMBDA b, item :
             [b EXCEPT !.FoodItems = Incr(@, item),
                       !.foodItemDetails =
                         AppendAt(@, item, [Date |-> dayBefore,
                                            TriggerSeverity |-> severity])],
           a, d.Items),
         t, dietMap[dayBefore])
  ELSE t

\* "if menstrual, ok := menstrualMap[dayBefore]; ok { ... }"
RC_menstrual(t, dayBefore, severity, menstrualMap) ==
  IF dayBefore \in DOMAIN menstrualMap
  THEN [t EXCEPT
          !.MenstrualEvent = Incr(@, menstrualMap[dayBefore].PeriodEvent),
          !.menstrualEventDetails =
            AppendAt(@, menstrualMap[dayBefore].PeriodEvent,
                     [Date |-> dayBefore, TriggerSeverity |-> severity]),
          !.FlowLevel = Incr(@, menstrualMap[dayBefore].FlowLevel),
          !.flowLevelDetails =
            AppendAt(@, menstrualMap[dayBefore].FlowLevel,
                     [Date |-> dayBefore, TriggerSeverity |-> severity])]
  ELSE t

\* one iteration of "for spikeDateStr, severity := range spikeDays"
RC_CheckDayBefore(t, spikeDateStr, severity, sleepMap, dietMap, menstrualMap) ==
  With(Format(AddDate(Parse(spikeDateStr), -1)), LAMBDA dayBefore :
       RC_menstrual(RC_foodItems(RC_lowSleep(t, dayBefore, severity, sleepMap),
                                 dayBefore, severity, dietMap),
                    dayBefore, severity, menstrualMap))

\* the loop, visiting the spike dates in the given order
RC_Triggers(spikeDays, order, sleepMap, dietMap, menstrualMap) ==
  FoldLeft(LAMBDA t, k :
             RC_CheckDayBefore(t, k, spikeDays[k], sleepMap, dietMap,
                               menstrualMap),
           NoTriggers, order)

\* ------------------------------------------------------------------------
\* predict_flareups after the loop over spikeDays
\* ------------------------------------------------------------------------
RecentWindow == 3

\* the whole collection instead of its last three records
AllRecords(xs) == SubSeq(xs, 1, Len(xs))

\* "for i := len(xs) - 3; i < len(xs); i++ { if i >= 0 { ... xs[i] ... } }"
LastRecords(xs) ==
  SubSeq(xs, IF Len(xs) > RecentWindow THEN Len(xs) - RecentWindow + 1 ELSE 1,
         Len(xs))

\* strings.Title on the food names of the logs
Title(str) ==
  CASE str = "chocolate" -> "Chocolate"
    [] str = "milk" -> "Milk"
    [] OTHER -> str

\* fmt.Sprintf("%.2f", x) for 0 <= x < 2^15: << integer part, hundredths >>,
\* the exact value rounded to two decimals, ties to even
Fixed2(x) ==
  IF IsZero(x) THEN << 0, 0 >>
  ELSE LET n == BMulSmall(x.m, 100)
           sh == 0 - x.e
           q == ToInt(BShr(n, sh))
           half == BitAt(n, sh - 1) = 1
           low == ~LowBitsZero(n, sh - 1)
           h == IF half /\ (low \/ BitAt(n, sh) = 1) THEN q + 1 ELSE q
       IN << h \div 100, h % 100 >>

\* math.Round: to the nearest integer, halves away from zero
FRoundInt(x) ==
  IF IsNaN(x) \/ IsZero(x) \/ x.e >= 0 THEN x
  ELSE LET sh == 0 - x.e
           q == BShr(x.m, sh)
       IN FRound(x.s, IF BitAt(x.m, sh - 1) = 1 THEN BAdd(q, << 1 >>) ELSE q,
                 0, FALSE)

Percent == 100

\* recentSleep, recentDiet, recentMenstrual, recentSymptoms
PF_recentSleep(sleepData) ==
  FoldLeft(LAMBDA m, s : Put(m, Format(s.Date), s), EmptyMap,
           LastRecords(sleepData))

PF_recentDiet(dietData) ==
  FoldLeft(LAMBDA m, d : AppendAt(m, Format(d.Date), d), EmptyMap,
           LastRecords(dietData))

PF_recentMenstrual(menstrualData) ==
  FoldLeft(LAMBDA m, r : Put(m, Format(r.Date), r), EmptyMap,
           LastRecords(menstrualData))

PF_recentSymptoms(symptomsData) ==
  FoldLeft(LAMBDA m, s : Put(m, Format(s.Date), s), EmptyMap,
           LastRecords(symptomsData))

\* the four "if ..., ok := recent...[date]; ok" of one iteration of
\* "for date := range recentSleep"
PF_predictSleep(preds, date, recentSleep) ==
  IF FLess(recentSleep[date].Duration, FromInt(SleepThreshold))
  THEN Append(preds, << "Low sleep hours on", date >>)
  ELSE preds

PF_predictDiet(preds, date, recentDiet) ==
  IF date \in DOMAIN recentDiet
  THEN FoldLeft(LAMBDA a, d :
         FoldLeft(LAMBDA b, item :
             Append(b, << Title(item), "consumed on", date >>),
           a, d.Items),
         preds, recentDiet[date])
  ELSE preds

PF_predictMenstrual(preds, date, recentMenstrual) ==
  IF date \in DOMAIN recentMenstrual
  THEN preds \o << << "Menstrual event", recentMenstrual[date].PeriodEvent,
                      "on", date >>,
                   << "Flow level", recentMenstrual[date].FlowLevel,
                      "on", date >> >>
  ELSE preds

PF_predictSymptoms(preds, date, recentSymptoms, mean, stdDev) ==
  IF date \in DOMAIN recentSymptoms
  THEN With(FDivInt(FromInt(Int32Add(Int32Add(recentSymptoms[date].Nausea,
                recentSymptoms[date].Fatigue), recentSymptoms[date].Pain)), 3),
            LAMBDA avgSeverity :
              IF FGreater(avgSeverity, FAdd(mean, stdDev))
              THEN Append(preds, << "High symptom severity on", date,
                                    Fixed2(avgSeverity) >>)
              ELSE preds)
  ELSE preds

\* recentFlareupPredictions, visiting the dates of recentSleep in the given order
PF_Predictions(order, recentSleep, recentDiet, recentMenstrual, recentSymptoms, mean, stdDev) ==
  FoldLeft(LAMBDA preds, date :
             PF_predictSymptoms(
               PF_predictMenstrual(
                 PF_predictDiet(PF_predictSleep(preds, date, recentSleep),
                                date, recentDiet),
                 date, recentMenstrual),
               date, recentSymptoms, mean, stdDev),
           << >>, order)

RECURSIVE SumCounts(_)
SumCounts(m) ==
  IF DOMAIN m = {} THEN 0
  ELSE LET k == CHOOSE x \in DOMAIN m : TRUE
       IN m[k] + SumCounts([x \in DOMAIN m \ {k} |-> m[x]])

PF_TotalTriggers(triggers) ==
  SumCounts(triggers.FoodItems) + triggers.LowSleepHours
    + SumCounts(triggers.MenstrualEvent) + SumCounts(triggers.FlowLevel)

\* the probability without "probability = math.Min(probability, 1.0)"
PF_ProbabilityNoCap(totalTriggers, nPredictions) ==
  FDivInt(FRoundInt(FMul(FMul(FDivInt(FromInt(totalTriggers), nPredictions),
                              FromInt(Percent)),
                         FromInt(100))),
          100)

\* the probability rounded to whole percent
PF_ProbabilityWhole(totalTriggers, nPredictions) ==
  FRoundInt(FMul(FMin(FDivInt(FromInt(totalTriggers), nPredictions),
                      FromInt(1)),
                 FromInt(Percent)))

PF_Probability(totalTriggers, nPredictions) ==
  FDivInt(FRoundInt(FMul(FMul(FMin(FDivInt(FromInt(totalTriggers),
                                           nPredictions),
                                   FromInt(1)),
                              FromInt(Percent)),
                         FromInt(100))),
          100)

\* ------------------------------------------------------------------------
\* The detection results of every symptom table of the model, computed once:
\* FT_Detect and its two copies are pure functions of symptomsData and of the
\* build's multiply-add, and the handlers below read them from these tables.
\* ------------------------------------------------------------------------
DetectInputs == (SymptomStores \ { << >> }) \X BOOLEAN

Tabulate(f) == f @@ << >>

FT_DetectTable == Tabulate([x \in DetectInputs |-> FT_Detect(x[1], x[2])])
PF_DetectTable == Tabulate([x \in DetectInputs |-> PF_Detect(x[1], x[2])])
RC_DetectTable == Tabulate([x \in DetectInputs |-> RC_Detect(x[1], x[2])])

\* ------------------------------------------------------------------------
\* What a handler hands to c.JSON / c.String, with the local variables it
\* had assigned when it returned
\* ------------------------------------------------------------------------
Message(text) == [status |-> 200, body |-> [message |-> text]]
ServerError(text) == [status |-> 500, body |-> [error |-> text]]

NoSymptomData == "No symptom data found."
NoRecentPredictions == "No recent flareup predictions found."
NoTriggersFound == "No triggers found in recent data."

TriggerBody(det, t) ==
  [symptom_spike_threshold |-> det.threshold,
   symptom_average |-> det.mean,
   standard_deviation |-> det.stdDev,
   low_sleep_hours |-> [count |-> t.LowSleepHours, details |-> t.lowSleepDetails],
   common_food_items |-> [counts |-> t.FoodItems, details |-> t.foodItemDetails],
   menstrual_events |-> [counts |-> t.MenstrualEvent,
                         details |-> t.menstrualEventDetails],
   flow_levels |-> [counts |-> t.FlowLevel, details |-> t.flowLevelDetails]]

Locals(det, t) ==
  [mean |-> det.mean, stdDev |-> det.stdDev, scoredDays |-> det.scoredDays,
   diffs |-> det.diffs, meanDiff |-> det.meanDiff, stdDiff |-> det.stdDiff,
   threshold |-> det.threshold, spikeDays |-> det.spikeDays, triggers |-> t]

EarlyLocals == [scores |-> << >>]

\* find_triggers: its c.JSON after the loop over spikeDays
FT_Respond(det, t) ==
  [locals |-> Locals(det, t),
   resp |-> [status |-> 200, body |-> TriggerBody(det, t)]]

\* find_triggers after the loop that fills spikeDays: the loop over spikeDays
\* in every order of the map's iteration, then the response
FT_After(det, sleepData, dietData, menstrualData) ==
  { FT_Respond(det, FT_Triggers(det.spikeDays, order, FT_sleepMap(sleepData),
                                FT_dietMap(dietData),
                                FT_menstrualMap(menstrualData)))
    : order \in Orders(DOMAIN det.spikeDays) }

\* find_triggers, from "var scores []float64" on
FT_Outcomes(sleepData, dietData, menstrualData, symptomsData, fuse) ==
  IF Len(symptomsData) = 0
  THEN { [locals |-> EarlyLocals, resp |-> Message(NoSymptomData)] }
  ELSE FT_After(FT_DetectTable[<< symptomsData, fuse >>], sleepData, dietData,
                menstrualData)

\* the responses with "if totalTriggers == 0" tested before
\* "if len(recentFlareupPredictions) == 0"
PF_RespondTriggersFirst(det, t, preds, totalTriggers) ==
  IF totalTriggers = 0
  THEN [locals |-> Locals(det, t) @@ [recentFlareupPredictions |-> preds,
                                       totalTriggers |-> totalTriggers],
        resp |-> Message(NoTriggersFound)]
  ELSE IF Len(preds) = 0
  THEN [locals |-> Locals(det, t) @@ [recentFlareupPredictions |-> preds],
        resp |-> Message(NoRecentPredictions)]
  ELSE With(PF_Probability(totalTriggers, Len(preds)), LAMBDA probability :
         [locals |-> Locals(det, t) @@ [recentFlareupPredictions |-> preds,
                                       totalTriggers |-> totalTriggers,
                                       probability |-> probability],
          resp |-> [status |-> 200,
                    body |-> [flareup_probability |-> probability,
                              flareup_predictions |-> preds]]])

\* predict_flareups from "if len(recentFlareupPredictions) == 0" on
PF_Respond(det, t, preds, totalTriggers) ==
  IF Len(preds) = 0
  THEN [locals |-> Locals(det, t) @@ [recentFlareupPredictions |-> preds],
        resp |-> Message(NoRecentPredictions)]
  ELSE IF totalTriggers = 0
  THEN [locals |-> Locals(det, t) @@ [recentFlareupPredictions |-> preds,
                                       totalTriggers |-> totalTriggers],
        resp |-> Message(NoTriggersFound)]
  ELSE With(PF_Probability(totalTriggers, Len(preds)), LAMBDA probability :
         [locals |-> Locals(det, t) @@ [recentFlareupPredictions |-> preds,
                                       totalTriggers |-> totalTriggers,
                                       probability |-> probability],
          resp |-> [status |-> 200,
                    body |-> [flareup_probability |-> probability,
                              flareup_predictions |-> preds]]])

\* predict_flareups after the loop over spikeDays, for one order of recentSleep
PF_Finish(det, t, recent, sleepData, dietData, menstrualData, symptomsData) ==
  PF_Respond(det, t,
             PF_Predictions(recent, PF_recentSleep(sleepData),
                            PF_recentDiet(dietData),
                            PF_recentMenstrual(menstrualData),
                            PF_recentSymptoms(symptomsData),
                            det.mean, det.stdDev),
             PF_TotalTriggers(t))

\* predict_flareups after the loop that fills spikeDays
PF_After(det, sleepData, dietData, menstrualData, symptomsData) ==
  { PF_Finish(det,
              PF_Triggers(det.spikeDays, o[1], PF_sleepMap(sleepData),
                          PF_dietMap(dietData), PF_menstrualMap(menstrualData)),
              o[2], sleepData, dietData, menstrualData, symptomsData)
    : o \in Orders(DOMAIN det.spikeDays)
            \X Orders(DOMAIN PF_recentSleep(sleepData)) }

\* predict_flareups without its "if len(scores) == 0" return
PF_NoEmptyCheck(sleepData, dietData, menstrualData, symptomsData, fuse) ==
  PF_After(PF_Detect(symptomsData, fuse), sleepData, dietData, menstrualData,
           symptomsData)

PF_Outcomes(sleepData, dietData, menstrualData, symptomsData, fuse) ==
  IF Len(symptomsData) = 0
  THEN { [locals |-> EarlyLocals, resp |-> Message(NoSymptomData)] }
  ELSE PF_After(PF_DetectTable[<< symptomsData, fuse >>], sleepData, dietData,
                menstrualData, symptomsData)

\* recommendations: the text generation service fails, returns no candidate,
\* or returns a text
GenerateOutcomes == { "error", "no candidates", "text" }

RC_Finish(det, t, generated) ==
  [locals |-> Locals(det, t),
   resp |-> CASE generated = "error" -> ServerError("generate content")
              [] generated = "no candidates" ->
                   ServerError("No recommendations generated")
              [] OTHER -> [status |-> 200, body |-> [text |-> "recommendations"]]]

\* recommendations after the loop that fills spikeDays
RC_After(det, sleepData, dietData, menstrualData) ==
  { RC_Finish(det,
              RC_Triggers(det.spikeDays, o[1], RC_sleepMap(sleepData),
                          RC_dietMap(dietData), RC_menstrualMap(menstrualData)),
              o[2])
    : o \in Orders(DOMAIN det.spikeDays) \X GenerateOutcomes }

RC_Outcomes(sleepData, dietData, menstrualData, symptomsData, fuse) ==
  IF Len(symptomsData) = 0
  THEN { [locals |-> EarlyLocals, resp |-> Message(NoSymptomData)] }
  ELSE RC_After(RC_DetectTable[<< symptomsData, fuse >>], sleepData, dietData,
                menstrualData)

\* ------------------------------------------------------------------------
\* State
\* ------------------------------------------------------------------------
VARIABLES
  sleep,      \* table sleep, in storage order
  diet,       \* table diet
  menstrual,  \* table menstrual
  symptoms,   \* table symptoms
  inserts,    \* how many insert requests the service has served
  fuse,       \* whether this build fuses x*y + z
  req         \* the analysis requests: position, fetched rows, locals, response

vars == << sleep, diet, menstrual, symptoms, inserts, fuse, req >>
tables == << sleep, diet, menstrual, symptoms >>

Reqs == { "r1", "r2" }
Kinds == { "find_triggers", "predict_flareups", "recommendations" }

Idle ==
  [pc |-> "idle", kind |-> "none", sleepData |-> << >>, dietData |-> << >>,
   menstrualData |-> << >>, symptomsData |-> << >>, locals |-> << >>,
   resp |-> << >>]

\* ------------------------------------------------------------------------
\* The service: inserts and analysis requests, one database call at a time
\* ------------------------------------------------------------------------
MaxInserts == 1

\* the database as the service finds it when it starts: empty, or three
\* symptom records and one night of sleep
SeedSymptoms == SubSeq(SymptomLog, 1, 3)
SeedSleep == SubSeq(SleepLog, 1, 1)

Init ==
  /\ \/ sleep = << >> /\ symptoms = << >>
     \/ sleep = SeedSleep /\ symptoms = SeedSymptoms
  /\ diet = << >> /\ menstrual = << >>
  /\ inserts = 0
  /\ fuse \in BOOLEAN
  /\ req = [r \in Reqs |-> Idle]

InsertSleep ==
  /\ inserts < MaxInserts
  /\ inserts' = inserts + 1
  /\ \E row \in { SleepLog[i] : i \in 1..Len(SleepLog) } :
       /\ Append(sleep, row) \in SleepStores
       /\ sleep' = Append(sleep, row)
  /\ UNCHANGED << diet, menstrual, symptoms, fuse, req >>

InsertDiet ==
  /\ inserts < MaxInserts
  /\ inserts' = inserts + 1
  /\ \E row \in { DietLog[i] : i \in 1..Len(DietLog) } :
       /\ Append(diet, row) \in DietStores
       /\ diet' = Append(diet, row)
  /\ UNCHANGED << sleep, menstrual, symptoms, fuse, req >>

InsertMenstrual ==
  /\ inserts < MaxInserts
  /\ inserts' = inserts + 1
  /\ \E row \in { MenstrualLog[i] : i \in 1..Len(MenstrualLog) } :
       /\ Append(menstrual, row) \in MenstrualStores
       /\ menstrual' = Append(menstrual, row)
  /\ UNCHANGED << sleep, diet, symptoms, fuse, req >>

InsertSymptoms ==
  /\ inserts < MaxInserts
  /\ inserts' = inserts + 1
  /\ \E row \in { SymptomLog[i] : i \in 1..Len(SymptomLog) } :
       /\ Append(symptoms, row) \in SymptomStores
       /\ symptoms' = Append(symptoms, row)
  /\ UNCHANGED << sleep, diet, menstrual, fuse, req >>

\* a request arrives and its handler starts
Start(r, kind) ==
  /\ req[r].pc = "idle"
  /\ req' = [req EXCEPT ![r] = [Idle EXCEPT !.pc = "GetAllSleep", !.kind = kind]]
  /\ UNCHANGED << tables, inserts, fuse >>

GetAllSleep(r) ==
  /\ req[r].pc = "GetAllSleep"
  /\ req' = [req EXCEPT ![r].sleepData = sleep, ![r].pc = "GetAllDiet"]
  /\ UNCHANGED << tables, inserts, fuse >>

GetAllDiet(r) ==
  /\ req[r].pc = "GetAllDiet"
  /\ req' = [req EXCEPT ![r].dietData = diet, ![r].pc = "GetAllMenstrual"]
  /\ UNCHANGED << tables, inserts, fuse >>

GetAllMenstrual(r) ==
  /\ req[r].pc = "GetAllMenstrual"
  /\ req' = [req EXCEPT ![r].menstrualData = menstrual,
                        ![r].pc = "GetAllSymptoms"]
  /\ UNCHANGED << tables, inserts, fuse >>

GetAllSymptoms(r) ==
  /\ req[r].pc = "GetAllSymptoms"
  /\ req' = [req EXCEPT ![r].symptomsData = symptoms, ![r].pc = "compute"]
  /\ UNCHANGED << tables, inserts, fuse >>

\* a query returns an error: the handler answers 500 and returns
QueryError(r) ==
  /\ req[r].pc \in { "GetAllSleep", "GetAllDiet", "GetAllMenstrual",
                     "GetAllSymptoms" }
  /\ req' = [req EXCEPT ![r].pc = "done", ![r].resp = ServerError("query")]
  /\ UNCHANGED << tables, inserts, fuse >>

Finish(r, out) ==
  req' = [req EXCEPT ![r].pc = "done", ![r].locals = out.locals,
                     ![r].resp = out.resp]

\* find_triggers computing from the tables as they are when it computes,
\* not from the rows its queries returned
FindTriggersLive(r) ==
  /\ req[r].pc = "compute" /\ req[r].kind = "find_triggers"
  /\ \E out \in FT_Outcomes(sleep, diet, menstrual, symptoms, fuse) :
       Finish(r, out)
  /\ UNCHANGED << tables, inserts, fuse >>

FindTriggers(r) ==
  /\ req[r].pc = "compute" /\ req[r].kind = "find_triggers"
  /\ \E out \in FT_Outcomes(req[r].sleepData, req[r].dietData,
                            req[r].menstrualData, req[r].symptomsData, fuse) :
       Finish(r, out)
  /\ UNCHANGED << tables, inserts, fuse >>

PredictFlareups(r) ==
  /\ req[r].pc = "compute" /\ req[r].kind = "predict_flareups"
  /\ \E out \in PF_Outcomes(req[r].sleepData, req[r].dietData,
                            req[r].menstrualData, req[r].symptomsData, fuse) :
       Finish(r, out)
  /\ UNCHANGED << tables, inserts, fuse >>

Recommendations(r) ==
  /\ req[r].pc = "compute" /\ req[r].kind = "recommendations"
  /\ \E out \in RC_Outcomes(req[r].sleepData, req[r].dietData,
                            req[r].menstrualData, req[r].symptomsData, fuse) :
       Finish(r, out)
  /\ UNCHANGED << tables, inserts, fuse >>

Next ==
  \/ InsertSleep
  \/ InsertDiet
  \/ InsertMenstrual
  \/ InsertSymptoms
  \/ \E r \in Reqs, kind \in Kinds : Start(r, kind)
  \/ \E r \in Reqs : GetAllSleep(r)
  \/ \E r \in Reqs : GetAllDiet(r)
  \/ \E r \in Reqs : GetAllMenstrual(r)
  \/ \E r \in Reqs : GetAllSymptoms(r)
  \/ \E r \in Reqs : QueryError(r)
  \/ \E r \in Reqs : FindTriggers(r)
  \/ \E r \in Reqs : PredictFlareups(r)
  \/ \E r \in Reqs : Recommendations(r)

Spec == Init /\ [][Next]_vars

\* ------------------------------------------------------------------------
\* The engine alone, one request served with no other request or insert in
\* between: any symptom table of the model with no other record, and the
\* symptom histories below with any sleep, diet and menstrual tables
\* ------------------------------------------------------------------------
History(rows) == [i \in 1..Len(rows) |-> SymptomLog[rows[i]]]

Histories ==
  { << >>, History(<< 1, 2, 4 >>), History(<< 1, 2, 3, 4 >>),
    History(<< 4, 3, 2, 1 >>), History(<< 1, 3, 5, 6 >>),
    History(<< 4, 5, 7 >>), History(<< 1, 2, 4, 5 >>), DropThenRise }

InitEngine ==
  /\ symptoms \in SymptomStores
  /\ \/ sleep = << >> /\ diet = << >> /\ menstrual = << >>
     \/ /\ symptoms \in Histories
        /\ sleep \in SleepStores /\ diet \in DietStores
        /\ menstrual \in MenstrualStores
  /\ inserts = 0
  /\ fuse \in BOOLEAN
  /\ req = [r \in Reqs |-> Idle]

Fetched(kind) ==
  [Idle EXCEPT !.kind = kind, !.sleepData = sleep, !.dietData = diet,
               !.menstrualData = menstrual, !.symptomsData = symptoms]

Serve(kind, out) ==
  /\ req' = [req EXCEPT !["r1"] = [Fetched(kind) EXCEPT !.pc = "done",
                                  !.locals = out.locals, !.resp = out.resp]]
  /\ UNCHANGED << tables, inserts, fuse >>

ServeFindTriggers ==
  /\ req["r1"].pc = "idle"
  /\ \E out \in FT_Outcomes(sleep, diet, menstrual, symptoms, fuse) :
       Serve("find_triggers", out)

ServePredictFlareups ==
  /\ req["r1"].pc = "idle"
  /\ \E out \in PF_Outcomes(sleep, diet, menstrual, symptoms, fuse) :
       Serve("predict_flareups", out)

ServeRecommendations ==
  /\ req["r1"].pc = "idle"
  /\ \E out \in RC_Outcomes(sleep, diet, menstrual, symptoms, fuse) :
       Serve("recommendations", out)

NextEngine ==
  \/ ServeFindTriggers
  \/ ServePredictFlareups
  \/ ServeRecommendations

EngineSpec == InitEngine /\ [][NextEngine]_vars

\* ------------------------------------------------------------------------
\* The probability computation alone: predict_flareups at
\* "probability := float64(totalTriggers) / float64(len(...))", which it
\* reaches with totalTriggers >= 1 and a non-empty prediction list
\* ------------------------------------------------------------------------
MaxCount == 40

\* the counts the model tries: the small ones, and two large enough for the
\* ratio of unequal counts to round to 1.0000
TriedCounts == (1..MaxCount) \cup { 20000, 20001 }

AtProbability(totalTriggers, nPredictions) ==
  [Idle EXCEPT !.pc = "probability", !.kind = "predict_flareups",
               !.locals = [totalTriggers |-> totalTriggers,
                           nPredictions |-> nPredictions]]

InitProbability ==
  /\ sleep = << >> /\ diet = << >> /\ menstrual = << >> /\ symptoms = << >>
  /\ inserts = 0
  /\ fuse \in BOOLEAN
  /\ \E totalTriggers \in TriedCounts, nPredictions \in TriedCounts :
       req = [r \in Reqs |-> IF r = "r1"
                             THEN AtProbability(totalTriggers, nPredictions)
                             ELSE Idle]

Probability ==
  /\ req["r1"].pc = "probability"
  /\ req' = [req EXCEPT
       !["r1"].pc = "done",
       !["r1"].locals = @ @@ [probability |->
                                PF_Probability(@.totalTriggers, @.nPredictions)],
       !["r1"].resp = [status |-> 200,
                       body |-> [flareup_probability |->
                                   PF_Probability(req["r1"].locals.totalTriggers,
                                                  req["r1"].locals.nPredictions)]]]
  /\ UNCHANGED << tables, inserts, fuse >>

NextProbability == Probability

ProbabilitySpec == InitProbability /\ [][NextProbability]_vars

\* ------------------------------------------------------------------------
\* The severity average alone: a handler at "var scores []float64" with one
\* symptom record whose components are any of the values below (the columns
\* are 32-bit integers, and insert_symptoms stores what it is given)
\* ------------------------------------------------------------------------
ScoreValues == { 0 - 7, 1, 4, 10, 12, MaxInt32 }

AtScores(nausea, fatigue, pain) ==
  [Idle EXCEPT !.pc = "scores", !.kind = "find_triggers",
               !.symptomsData = << Sym(30, nausea, fatigue, pain) >>]

InitScores ==
  /\ sleep = << >> /\ diet = << >> /\ menstrual = << >> /\ symptoms = << >>
  /\ inserts = 0
  /\ fuse \in BOOLEAN
  /\ \E nausea \in ScoreValues, fatigue \in ScoreValues, pain \in ScoreValues :
       req = [r \in Reqs |-> IF r = "r1" THEN AtScores(nausea, fatigue, pain)
                             ELSE Idle]

\* "for _, sym := range symptomsData { avg := ...; scores = append(scores, avg) }"
Scores ==
  /\ req["r1"].pc = "scores"
  /\ req' = [req EXCEPT
       !["r1"].pc = "mean",
       !["r1"].locals =
          [scores |-> FT_scores(FT_locals(req["r1"].symptomsData, fuse)).scores]]
  /\ UNCHANGED << tables, inserts, fuse >>

NextScores == Scores

ScoreSpec == InitScores /\ [][NextScores]_vars

\* ------------------------------------------------------------------------
\* Properties
\* ------------------------------------------------------------------------
\* a request whose four queries succeeded and whose handler has answered
Answered(r) ==
  /\ req[r].pc = "done"
  /\ req[r].resp # ServerError("query")

\* C1: a request that fetched exactly one symptom record ends with a message
\* (insufficient series / no data) and never computed meanDiff and stdDiff
\* over the empty list of deltas.
C1_SingleRecordIsRejected ==
  \A r \in Reqs :
    Answered(r) /\ Len(req[r].symptomsData) = 1
      => /\ "message" \in DOMAIN req[r].resp.body
         /\ "meanDiff" \notin DOMAIN req[r].locals

\* C2: a request that fetched no symptom record answers "No symptom data
\* found." and has computed nothing: no threshold, no spike map, no trigger
\* aggregate, no prediction list, no probability.
C2_EmptySymptomsStop ==
  \A r \in Reqs :
    Answered(r) /\ Len(req[r].symptomsData) = 0
      => /\ req[r].resp = [status |-> 200,
                           body |-> [message |-> "No symptom data found."]]
         /\ DOMAIN req[r].locals = { "scores" }

C2_EmptySymptomsWitness ==
  \E r \in Reqs :
    /\ Answered(r) /\ req[r].kind = "predict_flareups"
    /\ req[r].symptomsData = << >>
    /\ req[r].sleepData # << >> /\ req[r].dietData # << >>
    /\ req[r].menstrualData # << >>
    /\ req[r].resp.body = [message |-> "No symptom data found."]

\* The scenario of C3: severities 2, 2, 9 on three consecutive days d1, d2,
\* d3, one night of 5 hours and one diet record << "chocolate" >> on d2.
C3_Scenario(r) ==
  /\ Answered(r)
  /\ req[r].symptomsData = History(<< 1, 2, 4 >>)
  /\ req[r].sleepData = << SleepLog[1] >>
  /\ req[r].dietData = << DietLog[1] >>
  /\ req[r].menstrualData = << >>

\* C3 as the specification states it: in the scenario d3 is flagged as a
\* spike day, and the aggregate has low sleep count 1 and food item count 1
\* for "chocolate", each with the one example {date: d2, severity: 9}.
C3_ScenarioFlagsD3 ==
  \A r \in Reqs :
    C3_Scenario(r)
      => /\ DOMAIN req[r].locals.spikeDays = { Format(32) }
         /\ req[r].locals.triggers.LowSleepHours = 1
         /\ req[r].locals.triggers.lowSleepDetails =
              << [Date |-> Format(31), TriggerSeverity |-> FromInt(9)] >>
         /\ req[r].locals.triggers.FoodItems = ("chocolate" :> 1)
         /\ req[r].locals.triggers.foodItemDetails =
              ("chocolate" :> << [Date |-> Format(31),
                                  TriggerSeverity |-> FromInt(9)] >>)

\* C3: in the scenario the deltas are 0 and 7, the threshold is exactly 7,
\* and 7 > 7 is false: no day is flagged, and the aggregate is empty (low
\* sleep count 0, no food item, no example).
C3_ScenarioFlagsNothing ==
  \A r \in Reqs :
    C3_Scenario(r)
      => /\ req[r].locals.diffs = << FZero, FromInt(7) >>
         /\ req[r].locals.threshold = FromInt(7)
         /\ req[r].locals.spikeDays = EmptyMap
         /\ req[r].locals.triggers = NoTriggers
         /\ req[r].kind = "find_triggers"
              => /\ req[r].resp.body.low_sleep_hours.count = 0
                 /\ req[r].resp.body.common_food_items.counts = EmptyMap

C3_ScenarioWitness ==
  \E r \in Reqs :
    /\ C3_Scenario(r) /\ req[r].kind = "find_triggers"
    /\ req[r].locals.threshold = FromInt(7)
    /\ req[r].resp.body.symptom_spike_threshold = FromInt(7)

\* a request whose handler went past "if len(scores) == 0"
Analysed(r) == Answered(r) /\ Len(req[r].symptomsData) > 0

Range(f) == { f[x] : x \in DOMAIN f }

\* every example entry of a trigger aggregate
Examples(t) ==
  Range(t.lowSleepDetails)
    \cup UNION { Range(d) : d \in Range(t.foodItemDetails) }
    \cup UNION { Range(d) : d \in Range(t.menstrualEventDetails) }
    \cup UNION { Range(d) : d \in Range(t.flowLevelDetails) }

\* the dates of the sleep, diet and menstrual records a request fetched
LifestyleDates(r) ==
  { Format(x.Date) : x \in Range(req[r].sleepData) \cup Range(req[r].dietData)
                             \cup Range(req[r].menstrualData) }

\* the calendar day before a date key
DayBefore(S) == Format(Parse(S) - 1)

\* C4: every example of the aggregate carries the date one calendar day
\* before some spike date S and the severity of S; and when no sleep, diet or
\* menstrual record is dated the day before a spike date (records on the
\* spike dates themselves included), the aggregate is empty.
C4_OnlyTheDayBefore ==
  \A r \in Reqs :
    Analysed(r)
      => /\ \A e \in Examples(req[r].locals.triggers) :
              \E S \in DOMAIN req[r].locals.spikeDays :
                /\ e.Date = DayBefore(S)
                /\ e.TriggerSeverity = req[r].locals.spikeDays[S]
         /\ (\A S \in DOMAIN req[r].locals.spikeDays :
               DayBefore(S) \notin LifestyleDates(r))
              => req[r].locals.triggers = NoTriggers

\* a spike on day 32, with sleep, diet and menstrual records on day 32 only
C4_RecordsOnSpikeDateWitness ==
  \E r \in Reqs :
    /\ Analysed(r) /\ req[r].kind = "find_triggers"
    /\ DOMAIN req[r].locals.spikeDays = { Format(32) }
    /\ req[r].sleepData = << SleepLog[3] >>
    /\ req[r].dietData = << DietLog[3] >>
    /\ req[r].menstrualData = << MenstrualLog[2] >>
    /\ req[r].locals.triggers = NoTriggers

\* counts[k] = len(examples[k]) >= 1 for every key of either map
CountsMatch(counts, details) ==
  /\ DOMAIN counts = DOMAIN details
  /\ \A k \in DOMAIN counts : counts[k] = Len(details[k]) /\ counts[k] >= 1

\* C5: in every trigger aggregate each count equals the length of its
\* example list (low sleep, every food item, every menstrual event, every
\* flow level), and no counts map holds a key whose count is 0; the response
\* of find_triggers carries these counts and lists.
C5_CountsMatchExamples ==
  \A r \in Reqs :
    Analysed(r)
      => /\ req[r].locals.triggers.LowSleepHours =
              Len(req[r].locals.triggers.lowSleepDetails)
         /\ CountsMatch(req[r].locals.triggers.FoodItems,
                        req[r].locals.triggers.foodItemDetails)
         /\ CountsMatch(req[r].locals.triggers.MenstrualEvent,
                        req[r].locals.triggers.menstrualEventDetails)
         /\ CountsMatch(req[r].locals.triggers.FlowLevel,
                        req[r].locals.triggers.flowLevelDetails)
         /\ req[r].kind = "find_triggers"
              => /\ req[r].resp.body.low_sleep_hours.count =
                      Len(req[r].resp.body.low_sleep_hours.details)
                 /\ CountsMatch(req[r].resp.body.common_food_items.counts,
                                req[r].resp.body.common_food_items.details)
                 /\ CountsMatch(req[r].resp.body.menstrual_events.counts,
                                req[r].resp.body.menstrual_events.details)
                 /\ CountsMatch(req[r].resp.body.flow_levels.counts,
                                req[r].resp.body.flow_levels.details)

\* an aggregate with low sleep 1, "milk" 2, "chocolate" 1 and a menstrual event
C5_CountsWitness ==
  \E r \in Reqs :
    /\ Analysed(r) /\ req[r].kind = "find_triggers"
    /\ req[r].resp.body.low_sleep_hours.count = 1
    /\ req[r].resp.body.common_food_items.counts
         = ("milk" :> 2) @@ ("chocolate" :> 1)
    /\ req[r].resp.body.menstrual_events.counts = ("start" :> 1)

\* the integer value of an integer-valued float of magnitude below 2^30
IntOf(x) == IF IsZero(x) THEN 0 ELSE ToInt(BShr(x.m, 0 - x.e))

\* the number of hundredths nearest to x, and whether x is the float64
\* nearest to that many hundredths
Hundredths(x) == IntOf(FRoundInt(FMul(x, FromInt(100))))
IsHundredths(x) == x = FDivInt(FromInt(Hundredths(x)), 100)

\* requests that reported a flareup_probability
Reported(r) ==
  /\ req[r].pc = "done"
  /\ req[r].kind = "predict_flareups"
  /\ req[r].resp # ServerError("query")
  /\ "flareup_probability" \in DOMAIN req[r].resp.body

\* C6: a reported flareup_probability lies in [0, 100] and is a multiple of
\* 0.01: the float64 nearest to k / 100 for an integer k in 0..10000.
C6_ProbabilityRange ==
  \A r \in Reqs :
    Reported(r)
      => /\ ~FLess(req[r].resp.body.flareup_probability, FZero)
         /\ ~FGreater(req[r].resp.body.flareup_probability, FromInt(100))
         /\ IsHundredths(req[r].resp.body.flareup_probability)
         /\ Hundredths(req[r].resp.body.flareup_probability) \in 0..10000

\* 7 triggers over 3 explanations are capped at 100, 1 over 3 gives 33.33
C6_ProbabilityWitness ==
  /\ Reported("r1")
  /\ \/ /\ req["r1"].locals.totalTriggers = 7
        /\ req["r1"].locals.nPredictions = 3
        /\ req["r1"].resp.body.flareup_probability = FromInt(100)
     \/ /\ req["r1"].locals.totalTriggers = 1
        /\ req["r1"].locals.nPredictions = 3
        /\ Hundredths(req["r1"].resp.body.flareup_probability) = 3333

\* nausea + fatigue + pain of a symptom record
Sum(sym) == sym.Nausea + sym.Fatigue + sym.Pain

\* a symptom series stored in strictly increasing date order whose severity
\* changes by the same step from each day to the next (step 0: constant)
EqualSteps(data) ==
  /\ Len(data) >= 2
  /\ \A i \in 1..(Len(data) - 1) :
       /\ data[i].Date < data[i + 1].Date
       /\ Sum(data[i + 1]) - Sum(data[i]) = Sum(data[2]) - Sum(data[1])

\* C7 as the specification states it: when all consecutive deltas are equal,
\* std_delta = 0, threshold = mean_delta and the spike map is empty.
C7_EqualStepsNeverSpike ==
  \A r \in Reqs :
    Analysed(r) /\ EqualSteps(req[r].symptomsData)
      => /\ req[r].locals.stdDiff = FZero
         /\ req[r].locals.threshold = req[r].locals.meanDiff
         /\ req[r].locals.spikeDays = EmptyMap

\* the delta of scored day i (i >= 2) of a request
Delta(r, i) ==
  FSub(req[r].locals.scoredDays[i].Score, req[r].locals.scoredDays[i - 1].Score)

\* the scored days whose delta is strictly greater than the threshold
Flagged(r) ==
  { i \in 2..Len(req[r].locals.scoredDays) :
      FGreater(Delta(r, i), req[r].locals.threshold) }

Counts(t) ==
  [LowSleepHours |-> t.LowSleepHours, FoodItems |-> t.FoodItems,
   MenstrualEvent |-> t.MenstrualEvent, FlowLevel |-> t.FlowLevel]

\* what each of the three handlers may compute from the collections that
\* request r fetched
AllOutcomes(r) ==
  FT_Outcomes(req[r].sleepData, req[r].dietData, req[r].menstrualData,
              req[r].symptomsData, fuse)
    \cup PF_Outcomes(req[r].sleepData, req[r].dietData, req[r].menstrualData,
                     req[r].symptomsData, fuse)
    \cup RC_Outcomes(req[r].sleepData, req[r].dietData, req[r].menstrualData,
                     req[r].symptomsData, fuse)

\* C9: the threshold, the spike map and the four counts a handler computed
\* are those that each of the three handlers computes from the same four
\* collections, in every iteration order of their maps.
C9_SameEngine ==
  \A r \in Reqs :
    Analysed(r)
      => \A out \in AllOutcomes(r) :
           /\ out.locals.threshold = req[r].locals.threshold
           /\ out.locals.spikeDays = req[r].locals.spikeDays
           /\ Counts(out.locals.triggers) = Counts(req[r].locals.triggers)

\* recommendations with a spike day and a non-empty aggregate
C9_SameEngineWitness ==
  \E r \in Reqs :
    /\ Analysed(r) /\ req[r].kind = "recommendations"
    /\ req[r].locals.spikeDays # EmptyMap
    /\ req[r].locals.triggers.LowSleepHours = 1
    /\ req[r].locals.triggers.FoodItems # EmptyMap
    /\ req[r].locals.triggers.FlowLevel # EmptyMap

\* what the handler of request r may compute from the collections r fetched
OutcomesOf(r) ==
  CASE req[r].kind = "find_triggers" ->
         FT_Outcomes(req[r].sleepData, req[r].dietData, req[r].menstrualData,
                     req[r].symptomsData, fuse)
    [] req[r].kind = "predict_flareups" ->
         PF_Outcomes(req[r].sleepData, req[r].dietData, req[r].menstrualData,
                     req[r].symptomsData, fuse)
    [] OTHER ->
         RC_Outcomes(req[r].sleepData, req[r].dietData, req[r].menstrualData,
                     req[r].symptomsData, fuse)

\* C10: in every interleaving of analysis requests with each other and with
\* inserts, the result of a request is a result of the engine run alone on
\* the four collections that request fetched, whatever the tables hold by
\* then and whatever the other request did; and a step of an analysis
\* request leaves the four tables unchanged.
C10_IndependentInvocations ==
  /\ [](\A r \in Reqs :
          Answered(r)
            => [locals |-> req[r].locals, resp |-> req[r].resp] \in OutcomesOf(r))
  /\ [][req' # req => tables' = tables]_vars

\* a request answered from a symptom table that an insert has changed since
\* the request read it, while the other request is in flight
C10_InterleavedWitness ==
  \E r \in Reqs, o \in Reqs :
    /\ Answered(r) /\ Len(req[r].symptomsData) > 0
    /\ req[r].symptomsData # symptoms
    /\ o # r /\ req[o].pc \notin { "idle", "done" }

\* no two records of the collection bear the same date
OnePerDate(data) ==
  \A i, j \in 1..Len(data) : data[i].Date = data[j].Date => i = j

\* every order in which the store may return the records of a collection
Permuted(data) ==
  { [i \in 1..Len(data) |-> data[p[i]]] : p \in Permutations(1..Len(data)) }

\* the precondition of C11 for the collections request r fetched
C11_OnePerDate(r) ==
  /\ Analysed(r)
  /\ OnePerDate(req[r].symptomsData)
  /\ OnePerDate(req[r].sleepData)
  /\ OnePerDate(req[r].menstrualData)

\* the mean that the handler computes from symptomsData
MeanOf(symptomsData) == FT_mean(FT_scores(FT_locals(symptomsData, fuse))).mean

\* the date-sorted scored days that the handler computes from symptomsData
ScoredDaysOf(symptomsData) ==
  FT_scoredDays(FT_locals(symptomsData, fuse)).scoredDays

\* threshold and spike map as the handler computes them from scoredDays
SpikesOf(scoredDays) ==
  FT_spikeDays(FT_threshold(FT_stdDiff(FT_meanDiff(FT_diffs(
    [FT_locals(<< >>, fuse) EXCEPT !.scoredDays = scoredDays])))))

\* the four counts from a spike map and permuted sleep, diet and menstrual
\* collections, in every iteration order of the spike map
PermutedCounts(spikeDays, sleepData, dietData, menstrualData) ==
  { Counts(FT_Triggers(spikeDays, x[1], FT_sleepMap(x[2]), FT_dietMap(x[3]),
                       FT_menstrualMap(x[4])))
    : x \in Orders(DOMAIN spikeDays) \X Permuted(sleepData)
              \X Permuted(dietData) \X Permuted(menstrualData) }

\* C11 as the specification states it, for the mean: with one record per
\* date, every order of the symptom collection gives the same mean.
C11_MeanUnchanged ==
  \A r \in Reqs :
    C11_OnePerDate(r)
      => \A p \in Permuted(req[r].symptomsData) : MeanOf(p) = req[r].locals.mean

\* C11: with one record per date in the symptom, sleep and menstrual
\* collections, every order of the symptom collection gives the same
\* date-sorted series, from which alone threshold and spike map are computed,
\* and every order of the sleep, diet and menstrual collections gives the
\* same four counts; the mean, summed in storage order, stays within 0.01.
C11_OrderIndependent ==
  \A r \in Reqs :
    C11_OnePerDate(r)
      => /\ \A p \in Permuted(req[r].symptomsData) :
              /\ ScoredDaysOf(p) = req[r].locals.scoredDays
              /\ Hundredths(MeanOf(p)) = Hundredths(req[r].locals.mean)
         /\ SpikesOf(req[r].locals.scoredDays).threshold = req[r].locals.threshold
         /\ SpikesOf(req[r].locals.scoredDays).spikeDays = req[r].locals.spikeDays
         /\ PermutedCounts(req[r].locals.spikeDays, req[r].sleepData,
                           req[r].dietData, req[r].menstrualData)
              = { Counts(req[r].locals.triggers) }

\* four days with equal steps, two nights and two diet records on different
\* dates stored against date order, a spike day and a low-sleep count of 1
C11_OrderWitness ==
  \E r \in Reqs :
    /\ C11_OnePerDate(r)
    /\ req[r].symptomsData = History(<< 1, 3, 5, 6 >>)
    /\ req[r].sleepData = << SleepLog[3], SleepLog[1] >>
    /\ req[r].dietData = << DietLog[3], DietLog[2] >>
    /\ req[r].locals.spikeDays # EmptyMap
    /\ req[r].locals.triggers.LowSleepHours = 1

\* float64 addition is exact on integers of magnitude below 2^53: the sum of
\* the three components as a real number
RealSum(sym) ==
  FAdd(FAdd(FromInt(sym.Nausea), FromInt(sym.Fatigue)), FromInt(sym.Pain))

\* C12 as the specification states it: the severity of a record is
\* (nausea + fatigue + pain) / 3 for every three 32-bit integers, and lies in
\* [1, 10] when every component lies in 1..10.
C12_ExactAverage ==
  req["r1"].pc = "mean"
    => /\ req["r1"].locals.scores[1]
            = FDivInt(RealSum(req["r1"].symptomsData[1]), 3)
       /\ (\A c \in { req["r1"].symptomsData[1].Nausea,
                      req["r1"].symptomsData[1].Fatigue,
                      req["r1"].symptomsData[1].Pain } : c \in 1..10)
            => /\ ~FLess(req["r1"].locals.scores[1], FromInt(1))
               /\ ~FGreater(req["r1"].locals.scores[1], FromInt(10))

\* record i is the last one stored for its date
LastOfDate(data, i) ==
  \A j \in 1..Len(data) : data[j].Date = data[i].Date => j <= i

\* the spike dates S of request r whose day before has a sleep record, the
\* last stored for that date, of strictly less than 6 hours
LowSleepSpikes(r) ==
  { S \in DOMAIN req[r].locals.spikeDays :
      \E i \in 1..Len(req[r].sleepData) :
        /\ Format(req[r].sleepData[i].Date) = DayBefore(S)
        /\ LastOfDate(req[r].sleepData, i)
        /\ FLess(req[r].sleepData[i].Duration, FromInt(6)) }

\* C13: the low-sleep count is the number of distinct spike dates S whose
\* day before has a sleep record, the last stored for that date, of strictly
\* less than 6 hours: a night of exactly 6 hours or a missing record adds
\* nothing, and a spike date is counted once however many symptom records
\* bear it.
C13_LowSleepCount ==
  \A r \in Reqs :
    Analysed(r)
      => /\ req[r].locals.triggers.LowSleepHours = Cardinality(LowSleepSpikes(r))
         /\ req[r].kind = "find_triggers"
              => req[r].resp.body.low_sleep_hours.count
                   = Cardinality(LowSleepSpikes(r))

\* day 32 bears two symptom records and is a spike date; day 31 has a night
\* of 6 hours stored first and one of 5 hours stored last: counted once
C13_LowSleepWitness ==
  \E r \in Reqs :
    /\ Analysed(r) /\ req[r].kind = "find_triggers"
    /\ req[r].symptomsData = History(<< 1, 2, 4, 5 >>)
    /\ req[r].sleepData = << SleepLog[2], SleepLog[1] >>
    /\ DOMAIN req[r].locals.spikeDays = { Format(32) }
    /\ req[r].resp.body.low_sleep_hours.count = 1

\* the occurrences of food items in the diet records of request r dated the
\* day before a spike date: << spike date, diet record, position >>
ItemOccurrences(r) ==
  UNION { { << y[1], y[2], j >> : j \in 1..Len(req[r].dietData[y[2]].Items) }
          : y \in { z \in (DOMAIN req[r].locals.spikeDays)
                            \X (1..Len(req[r].dietData)) :
                      Format(req[r].dietData[z[2]].Date) = DayBefore(z[1]) } }

ItemAt(r, x) == req[r].dietData[x[2]].Items[x[3]]

\* C14: the count of every food item is the number of its occurrences in
\* the diet records dated the day before a spike date, duplicates within a
\* record and records sharing a date included, and the counts sum to the
\* number of all such occurrences.
C14_FoodItemCounts ==
  \A r \in Reqs :
    Analysed(r)
      => /\ DOMAIN req[r].locals.triggers.FoodItems
              = { ItemAt(r, x) : x \in ItemOccurrences(r) }
         /\ \A item \in DOMAIN req[r].locals.triggers.FoodItems :
              req[r].locals.triggers.FoodItems[item]
                = Cardinality({ x \in ItemOccurrences(r) : ItemAt(r, x) = item })
         /\ SumCounts(req[r].locals.triggers.FoodItems)
              = Cardinality(ItemOccurrences(r))

\* two diet records on the day before the spike day, one of them with the
\* same item twice: three increments
C14_FoodItemWitness ==
  \E r \in Reqs :
    /\ Analysed(r)
    /\ req[r].dietData = << DietLog[1], DietLog[2] >>
    /\ DOMAIN req[r].locals.spikeDays = { Format(32) }
    /\ req[r].locals.triggers.FoodItems = ("chocolate" :> 1) @@ ("milk" :> 2)
    /\ Cardinality(ItemOccurrences(r)) = 3

\* the positions of the last min(3, length) records of a collection
LastThree(data) == { i \in 1..Len(data) : i > Len(data) - 3 }

\* record i is the last of its date among the last three records
LastInWindow(data, i) ==
  /\ i \in LastThree(data)
  /\ \A j \in LastThree(data) : data[j].Date = data[i].Date => j <= i

\* the dates of the recent-sleep window of request r
RecentSleepDates(r) ==
  { Format(req[r].sleepData[i].Date) : i \in LastThree(req[r].sleepData) }

\* the date an explanation string names
StringDate(str) ==
  CASE str[1] \in { "Low sleep hours on", "High symptom severity on" } -> str[2]
    [] str[1] \in { "Menstrual event", "Flow level" } -> str[4]
    [] OTHER -> str[3]

\* the explanation strings that the recent windows of request r call for
RecentStrings(r) ==
  { << "Low sleep hours on", Format(req[r].sleepData[i].Date) >>
      : i \in { j \in 1..Len(req[r].sleepData) :
                  /\ LastInWindow(req[r].sleepData, j)
                  /\ FLess(req[r].sleepData[j].Duration, FromInt(6)) } }
  \cup
  UNION { { << Title(item), "consumed on", Format(req[r].dietData[i].Date) >>
              : item \in Range(req[r].dietData[i].Items) }
          : i \in { j \in LastThree(req[r].dietData) :
                      Format(req[r].dietData[j].Date) \in RecentSleepDates(r) } }
  \cup
  UNION { { << "Menstrual event", req[r].menstrualData[i].PeriodEvent, "on",
               Format(req[r].menstrualData[i].Date) >>,
            << "Flow level", req[r].menstrualData[i].FlowLevel, "on",
               Format(req[r].menstrualData[i].Date) >> }
          : i \in { j \in 1..Len(req[r].menstrualData) :
                      /\ LastInWindow(req[r].menstrualData, j)
                      /\ Format(req[r].menstrualData[j].Date)
                           \in RecentSleepDates(r) } }
  \cup
  { << "High symptom severity on", Format(req[r].symptomsData[i].Date),
       Fixed2(FT_avg(req[r].symptomsData[i])) >>
      : i \in { j \in 1..Len(req[r].symptomsData) :
                  /\ LastInWindow(req[r].symptomsData, j)
                  /\ Format(req[r].symptomsData[j].Date) \in RecentSleepDates(r)
                  /\ FGreater(FT_avg(req[r].symptomsData[j]),
                              FAdd(req[r].locals.mean, req[r].locals.stdDev)) } }

\* predict_flareups requests that went past "if len(scores) == 0"
Predicted(r) == Analysed(r) /\ req[r].kind = "predict_flareups"

\* C15 as the specification states it: with an empty sleep collection the
\* outcome of predict_flareups is always "No recent flareup predictions
\* found."
C15_NoSleepNoPredictions ==
  \A r \in Reqs :
    Answered(r) /\ req[r].kind = "predict_flareups" /\ req[r].sleepData = << >>
      => req[r].resp = [status |-> 200,
                        body |-> [message |->
                                    "No recent flareup predictions found."]]

\* C15: the explanation strings of predict_flareups are those of the last
\* min(3, length) records of each collection in storage order, for the
\* dates of the recent-sleep window only; with an empty sleep collection and
\* a non-empty symptom collection the outcome is "No recent flareup
\* predictions found."
C15_RecentWindow ==
  \A r \in Reqs :
    Predicted(r)
      => /\ Range(req[r].locals.recentFlareupPredictions) = RecentStrings(r)
         /\ \A str \in Range(req[r].locals.recentFlareupPredictions) :
              StringDate(str) \in RecentSleepDates(r)
         /\ req[r].sleepData = << >>
              => req[r].resp = [status |-> 200,
                                body |-> [message |->
                                    "No recent flareup predictions found."]]

\* four symptom records stored latest first: the record of day 32, severity
\* 9, is outside the window of three, and the night of day 32 brings a low
\* sleep string and no severity string
C15_WindowWitness ==
  \E r \in Reqs :
    /\ Predicted(r)
    /\ req[r].symptomsData = History(<< 4, 3, 2, 1 >>)
    /\ req[r].sleepData = << SleepLog[3] >>
    /\ FGreater(FT_avg(req[r].symptomsData[1]),
                FAdd(req[r].locals.mean, req[r].locals.stdDev))
    /\ req[r].locals.recentFlareupPredictions
         = << << "Low sleep hours on", Format(32) >> >>

\* the sum of the four kinds of counts of a trigger aggregate
TotalOf(t) ==
  t.LowSleepHours + SumCounts(t.FoodItems) + SumCounts(t.MenstrualEvent)
    + SumCounts(t.FlowLevel)

\* C16: predict_flareups answers "No symptom data found." when it fetched
\* no symptom record; else "No recent flareup predictions found." when it
\* produced no explanation string; else "No triggers found in recent data."
\* when the counts sum to 0; else a probability with the explanation list.
\* The probability is computed in the last case only, with at least one
\* explanation string and a total of at least 1.
C16_FourOutcomes ==
  \A r \in Reqs :
    Answered(r) /\ req[r].kind = "predict_flareups"
      => /\ req[r].resp.status = 200
         /\ IF Len(req[r].symptomsData) = 0
            THEN req[r].resp.body = [message |-> "No symptom data found."]
            ELSE IF Len(req[r].locals.recentFlareupPredictions) = 0
            THEN req[r].resp.body
                   = [message |-> "No recent flareup predictions found."]
            ELSE IF TotalOf(req[r].locals.triggers) = 0
            THEN req[r].resp.body
                   = [message |-> "No triggers found in recent data."]
            ELSE /\ DOMAIN req[r].resp.body
                      = { "flareup_probability", "flareup_predictions" }
                 /\ req[r].resp.body.flareup_predictions
                      = req[r].locals.recentFlareupPredictions
                 /\ req[r].resp.body.flareup_probability
                      = req[r].locals.probability
         /\ "probability" \in DOMAIN req[r].locals
              => /\ Len(req[r].locals.recentFlareupPredictions) >= 1
                 /\ req[r].locals.totalTriggers >= 1
                 /\ req[r].locals.totalTriggers = TotalOf(req[r].locals.triggers)
                 /\ "flareup_probability" \in DOMAIN req[r].resp.body

\* one trigger over two explanation strings: the division is reached
C16_ProbabilityReachedWitness ==
  \E r \in Reqs :
    /\ Predicted(r)
    /\ "probability" \in DOMAIN req[r].locals
    /\ req[r].locals.totalTriggers = 1
    /\ Len(req[r].locals.recentFlareupPredictions) = 2
    /\ req[r].resp.body.flareup_predictions
         = req[r].locals.recentFlareupPredictions

\* K hundredths is min(T / E, 1) * 100 rounded to two decimals: no other
\* number of hundredths is nearer to it (a tie may go either way)
RoundedRatio(K, T, E) ==
  /\ 2 * (10000 * (IF T < E THEN T ELSE E) - K * E) <= E
  /\ 2 * (K * E - 10000 * (IF T < E THEN T ELSE E)) <= E

C18_ThreeDaysNeverSpike ==
  \A r \in Reqs :
    Analysed(r) /\ Len(req[r].locals.scoredDays) = 3
      => /\ req[r].locals.threshold
              = (IF FLess(req[r].locals.diffs[1], req[r].locals.diffs[2])
                 THEN req[r].locals.diffs[2] ELSE req[r].locals.diffs[1])
         /\ req[r].locals.spikeDays = EmptyMap
         /\ req[r].locals.triggers = NoTriggers

\* C19: a request that analysed n >= 2 scored days has threshold >=
\* mean_delta, at least one delta that is not above the threshold, fewer
\* flagged days than deltas, and at most n - 2 dates in its spike map.
C19_NotEveryDaySpikes ==
  \A r \in Reqs :
    Analysed(r) /\ Len(req[r].locals.scoredDays) >= 2
      => /\ Len(req[r].locals.diffs) = Len(req[r].locals.scoredDays) - 1
         /\ ~FLess(req[r].locals.threshold, req[r].locals.meanDiff)
         /\ \E i \in 2..Len(req[r].locals.scoredDays) :
              ~FGreater(Delta(r, i), req[r].locals.threshold)
         /\ Cardinality(Flagged(r)) < Len(req[r].locals.diffs)
         /\ Cardinality(DOMAIN req[r].locals.spikeDays)
              <= Len(req[r].locals.scoredDays) - 2

\* four scored days on four dates, of which exactly one is flagged
C19_SpikesWitness ==
  \E r \in Reqs :
    /\ Analysed(r)
    /\ Len(req[r].locals.scoredDays) = 4
    /\ Cardinality(Flagged(r)) = 1
    /\ Cardinality(DOMAIN req[r].locals.spikeDays) = 1
    /\ ~FLess(req[r].locals.threshold, req[r].locals.meanDiff)

====
